---- MODULE Spec2Model ----
(***************************************************************************)
(* Guess That Rent: the scoring script (scripts/upsert_scores.py) and the  *)
(* leaderboard API (main.py) over the two tables users and score.          *)
(*                                                                         *)
(* Strings are sequences of one-character strings, so that Python's `in`,  *)
(* str.endswith and str.replace are computed character by character.       *)
(* Instants are whole hours, counted in UTC from 2025-01-01T00:00Z.        *)
(***************************************************************************)
EXTENDS Integers, Sequences, FiniteSets, TLC

VARIABLES
    users,          \* table users: sequence of rows [id, username]
    scores,         \* table score: sequence of rows [id, user_id, score_value, created_at]
    clock,          \* the database server's now(), and datetime.now()
    response,       \* the last response the API returned
    pc,             \* per scoring run: where main() stands
    records,        \* per scoring run: what fetch_airtable_data returned
    model_columns,  \* per scoring run: what extract_model_columns returned
    model_scores,   \* per scoring run: the dict calculate_model_scores returned
    todo,           \* per scoring run: index of the dict item the loop is at
    user,           \* per scoring run: the user row upsert_user holds
    returned,       \* per scoring run: the return statement upsert_user left by
    created         \* per scoring run: the score rows create_score returned

vars == <<users, scores, clock, response, pc, records, model_columns,
          model_scores, todo, user, returned, created>>

run_vars == <<pc, records, model_columns, model_scores, todo, user, returned, created>>

(***************************************************************************)
(* Bounds of the model.                                                    *)
(***************************************************************************)
MaxScores == 4

MaxRunScores == 2

\* requests of one model run belong to one season: no jump across seasons
MaxJump == 200

MaxUsers == 2

(***************************************************************************)
(* Strings.                                                                *)
(***************************************************************************)
S_Sonnet4 == <<"S", "o", "n", "n", "e", "t", " ", "4">>

S_Gemini25Flash ==
    <<"G", "e", "m", "i", "n", "i", " ", "2", ".", "5", " ", "F", "l", "a", "s", "h">>

S_GPT5 == <<"G", "P", "T", " ", "5">>

S_GPT5mini == <<"G", "P", "T", " ", "5", " ", "m", "i", "n", "i">>

S_alice == <<"a", "l", "i", "c", "e">>

S_bob == <<"b", "o", "b">>

\* s[i..] starts with p
StartsAt(s, p, i) ==
    /\ i + Len(p) - 1 <= Len(s)
    /\ \A k \in 1..Len(p) : s[i + k - 1] = p[k]

\* Python: p in s
Contains(s, p) == \E i \in 1..(Len(s) + 1) : StartsAt(s, p, i)

\* Python: s.endswith(p)
EndsWith(s, p) == Len(s) >= Len(p) /\ StartsAt(s, p, Len(s) - Len(p) + 1)

RECURSIVE ReplaceFrom(_, _, _)
\* Python: s.replace(p, "") from position i on: every non-overlapping
\* occurrence, leftmost first, is removed.
ReplaceFrom(s, p, i) ==
    IF i > Len(s) THEN <<>>
    ELSE IF StartsAt(s, p, i) THEN ReplaceFrom(s, p, i + Len(p))
    ELSE <<s[i]>> \o ReplaceFrom(s, p, i + 1)

Replace(s, p) == ReplaceFrom(s, p, 1)

(***************************************************************************)
(* Time: ZoneInfo("America/New_York") in 2025.                             *)
(***************************************************************************)
HoursPerDay == 24

DaysPerWeek == 7

StdOffset == -5

DstOffset == -4

\* 2025-03-09T07:00Z, 2025-11-02T06:00Z
DstStart == 1615

DstEnd == 7326

\* datetime.utcoffset() of an instant
UtcOffset(u) ==
    IF u < DstStart THEN StdOffset
    ELSE IF u < DstEnd THEN DstOffset
    ELSE StdOffset

\* datetime.now(ZoneInfo(...)): the wall clock reading at instant u
now_et(u) == u + UtcOffset(u)

\* wall.astimezone(utc) of a wall clock reading with fold = 0: a reading the
\* clocks show twice is the first of the two, a reading they skip is taken
\* with the offset in force before the change.
astimezone_utc(w) ==
    IF w < DstStart + DstOffset THEN w - StdOffset
    ELSE IF w < DstEnd + DstOffset THEN w - DstOffset
    ELSE w - StdOffset

\* now_et.replace(hour=0, minute=0, second=0, microsecond=0)
start_of_day(w) == w - (w % HoursPerDay)

(***************************************************************************)
(* The tables and the queries.                                             *)
(***************************************************************************)
ai_models == {S_Sonnet4, S_Gemini25Flash, S_GPT5}

\* any(model in username for model in ai_models)
is_ai(username) == \E model \in ai_models : Contains(username, model)

Range(s) == {s[i] : i \in 1..Len(s)}

UserById(id) == {u \in Range(users) : u.id = id}

UserByName(name) == {u \in Range(users) : u.username = name}

\* db.query(Score, User.username).join(User, Score.user_id == User.id),
\* each row as the score_item dict the handlers build from it
JoinedRows ==
    {[id |-> s.id, user_id |-> s.user_id, username |-> u.username,
      score_value |-> s.score_value, created_at |-> s.created_at] :
        <<s, u>> \in {p \in Range(scores) \X Range(users) : p[1].user_id = p[2].id}}

RECURSIVE OrderByScoreDesc(_)
\* .order_by(Score.score_value.desc()).all(): the database is free in the
\* order of rows with equal score_value
OrderByScoreDesc(S) ==
    IF S = {} THEN {<<>>}
    ELSE LET top == {r \in S : \A q \in S : q.score_value <= r.score_value}
         IN UNION {{<<r>> \o t : t \in OrderByScoreDesc(S \ {r})} : r \in top}

RECURSIVE OrderByCreatedDesc(_)
\* .order_by(Score.created_at.desc()).all()
OrderByCreatedDesc(S) ==
    IF S = {} THEN {<<>>}
    ELSE LET top == {r \in S : \A q \in S : q.created_at <= r.created_at}
         IN UNION {{<<r>> \o t : t \in OrderByCreatedDesc(S \ {r})} : r \in top}

\* list[:n]
Take(s, n) == SubSeq(s, 1, IF Len(s) < n THEN Len(s) ELSE n)

RECURSIVE InsertDesc(_, _)
\* x goes after every item whose score_value is >= its own
InsertDesc(s, x) ==
    IF s = <<>> THEN <<x>>
    ELSE IF s[1].score_value >= x.score_value THEN <<s[1]>> \o InsertDesc(Tail(s), x)
    ELSE <<x>> \o s

RECURSIVE SortDesc(_)
\* list.sort(key=lambda x: x['score_value'], reverse=True): stable, items of
\* equal score_value keep the order they had
SortDesc(s) ==
    IF s = <<>> THEN <<>>
    ELSE InsertDesc(SortDesc(SubSeq(s, 1, Len(s) - 1)), s[Len(s)])

AiLimit == 3

HumanLimit == 3

\* a week filter that forgets the start of the window
week_filter_no_start(r, now) == r.created_at <= now

\* the filter of the first query of get_week_scores
week_filter(r, now) ==
    LET week_start_et == now_et(now) - DaysPerWeek * HoursPerDay
        week_start_utc == astimezone_utc(week_start_et)
        now_utc == now
    IN r.created_at >= week_start_utc /\ r.created_at <= now_utc

\* the lists human_scores can be after the loop over rows: the rows of the
\* first query that are not a model's, in the order of the query (a list
\* ordered by score and then filtered is the filtered rows ordered by score)
human_scores(now) ==
    OrderByScoreDesc({r \in JoinedRows : week_filter(r, now) /\ ~is_ai(r.username)})

\* the models' rows taken from the rows of the week, as the humans' are
all_ai_scores_of_week ==
    OrderByScoreDesc({r \in JoinedRows : week_filter(r, clock) /\ is_ai(r.username)})

\* the lists all_ai_scores can be after the loop over all_ai_rows
all_ai_scores == OrderByScoreDesc({r \in JoinedRows : is_ai(r.username)})

\* top_ai_scores = all_ai_scores[:3]
top_ai_scores(ai) == Take(ai, AiLimit)

\* top_human_scores = human_scores[:3]
top_human_scores(human) == Take(human, HumanLimit)

\* the two lists joined and left as they are
combined_scores_unsorted(ai, human) == top_ai_scores(ai) \o top_human_scores(human)

\* combined_scores = top_ai_scores + top_human_scores, then sorted
combined_scores(ai, human) == SortDesc(top_ai_scores(ai) \o top_human_scores(human))

\* a day taken to be 24 hours from its start, whatever the clocks do
today_filter_24h(r, now) ==
    LET start_utc == astimezone_utc(start_of_day(now_et(now)))
    IN r.created_at >= start_utc /\ r.created_at < start_utc + HoursPerDay

\* the filter of the query of get_today_scores
today_filter(r, now) ==
    LET start_et == start_of_day(now_et(now))
        end_et == start_et + HoursPerDay
        start_utc == astimezone_utc(start_et)
        end_utc == astimezone_utc(end_et)
    IN r.created_at >= start_utc /\ r.created_at < end_utc

\* the lists rows can be in get_today_scores
today_rows(now) == OrderByCreatedDesc({r \in JoinedRows : today_filter(r, now)})

\* no request is being served
NoResponse == [op |-> "none", status |-> 0, scores |-> <<>>]

\* GET /scores/week
get_week_scores ==
    /\ response = NoResponse
    /\ \E ai \in all_ai_scores, human \in human_scores(clock) :
            response' = [op |-> "week", status |-> 200,
                         scores |-> combined_scores(ai, human)]
    /\ UNCHANGED <<users, scores, clock, run_vars>>

\* GET /scores/today
get_today_scores ==
    /\ response = NoResponse
    /\ \E rows \in today_rows(clock) :
            response' = [op |-> "today", status |-> 200, scores |-> rows]
    /\ UNCHANGED <<users, scores, clock, run_vars>>

\* the response has gone to the client: the event loop serves the next request
deliver ==
    /\ response # NoResponse
    /\ response' = NoResponse
    /\ UNCHANGED <<users, scores, clock, run_vars>>

\* an upsert: the user's score row is overwritten when there is one
update_or_insert_score(user_id, score_value) ==
    IF \E i \in 1..Len(scores) : scores[i].user_id = user_id
    THEN LET i == CHOOSE j \in 1..Len(scores) : scores[j].user_id = user_id
         IN [scores EXCEPT ![i] = [@ EXCEPT !.score_value = score_value,
                                            !.created_at = clock]]
    ELSE Append(scores, [id |-> Len(scores) + 1, user_id |-> user_id,
                         score_value |-> score_value, created_at |-> clock])

\* INSERT INTO score ... ; COMMIT: id and created_at are the server's defaults
insert_score(user_id, score_value) ==
    Append(scores, [id |-> Len(scores) + 1, user_id |-> user_id,
                    score_value |-> score_value, created_at |-> clock])

\* INSERT INTO users ... ; COMMIT
insert_user(username) == Append(users, [id |-> Len(users) + 1, username |-> username])

\* POST /users: the unique index on username raises IntegrityError
create_user(username) ==
    /\ response = NoResponse
    /\ IF UserByName(username) # {}
       THEN /\ response' = [op |-> "create_user", status |-> 409, scores |-> <<>>]
            /\ UNCHANGED users
       ELSE /\ users' = insert_user(username)
            /\ response' = [op |-> "create_user", status |-> 200, scores |-> <<>>]
    /\ UNCHANGED <<scores, clock, run_vars>>

\* a handler that stores the score without looking the user up
create_score_unchecked(user_id, score_value) ==
    /\ response = NoResponse
    /\ scores' = insert_score(user_id, score_value)
    /\ response' = [op |-> "create_score", status |-> 200,
                    scores |-> <<scores'[Len(scores')]>>]
    /\ UNCHANGED <<users, clock, run_vars>>

\* POST /scores
create_score_request(user_id, score_value) ==
    /\ response = NoResponse
    /\ IF UserById(user_id) = {}
       THEN /\ response' = [op |-> "create_score", status |-> 404, scores |-> <<>>]
            /\ UNCHANGED scores
       ELSE /\ scores' = insert_score(user_id, score_value)
            /\ response' = [op |-> "create_score", status |-> 200,
                            scores |-> <<scores'[Len(scores')]>>]
    /\ UNCHANGED <<users, clock, run_vars>>

\* time passes between two requests, to one of the instants at which a
\* request arrives
Tick(instants) ==
    /\ response = NoResponse
    /\ \E t \in instants : t > clock /\ t - clock <= MaxJump /\ clock' = t
    /\ UNCHANGED <<users, scores, response, run_vars>>

(***************************************************************************)
(* scripts/upsert_scores.py: exact arithmetic on fractions num/den,        *)
(* den > 0, in lowest terms.                                               *)
(***************************************************************************)
Abs(x) == IF x < 0 THEN -x ELSE x

RECURSIVE GCD(_, _)
GCD(a, b) == IF b = 0 THEN a ELSE GCD(b, a % b)

Rat(n, d) ==
    LET g == GCD(Abs(n), Abs(d))
        sgn == IF d < 0 THEN -1 ELSE 1
    IN [num |-> sgn * (n \div g), den |-> sgn * (d \div g)]

RatAdd(x, y) == Rat(x.num * y.den + y.num * x.den, x.den * y.den)

\* Python's round(): to the nearest integer, a tie to the even one
RoundHalfEven(x) ==
    LET lo == x.num \div x.den
        rem == x.num % x.den
    IN IF 2 * rem < x.den THEN lo
       ELSE IF 2 * rem > x.den THEN lo + 1
       ELSE IF lo % 2 = 0 THEN lo ELSE lo + 1

\* round(x, 1), as a number of tenths
round_1(x) == RoundHalfEven(Rat(x.num * 10, x.den))

\* round(score) of a score given in tenths
round_0(tenths) == RoundHalfEven(Rat(tenths, 10))

(***************************************************************************)
(* Airtable records: "fields" is a dict, here the sequence of its items    *)
(* [name, value] in the order of the dict, names distinct.                 *)
(***************************************************************************)
GuessSuffix == <<" ", "G", "u", "e", "s", "s">>

S_RentPrice == <<"R", "e", "n", "t", " ", "P", "r", "i", "c", "e">>

S_Sonnet4Guess == S_Sonnet4 \o GuessSuffix

Has(fields, name) == \E i \in 1..Len(fields) : fields[i].name = name

\* fields.get(name) where the key is present
Val(fields, name) == fields[CHOOSE i \in 1..Len(fields) : fields[i].name = name].value

\* Python's `not fields.get(name)`: None or 0
Falsy(fields, name) == ~Has(fields, name) \/ Val(fields, name) = 0

\* def extract_model_columns(records)
extract_model_columns(recs) ==
    IF recs = <<>> THEN <<>>
    ELSE LET sample_fields == recs[1]
             keys == [i \in 1..Len(sample_fields) |-> sample_fields[i].name]
         IN SelectSeq(keys, LAMBDA col : EndsWith(col, GuessSuffix))

\* a guess of 0 taken for a real guess
skipped_unless_zero_guess(fields, model_col) ==
    Falsy(fields, S_RentPrice) \/ ~Has(fields, model_col)

\* if not actual_rent or not model_guess or model_guess == 0: continue
skipped(fields, model_col) ==
    \/ Falsy(fields, S_RentPrice)
    \/ Falsy(fields, model_col)
    \/ Val(fields, model_col) = 0

\* error_percent = abs(model_guess - actual_rent) / actual_rent * 100
error_percent(model_guess, actual_rent) ==
    Rat(Abs(model_guess - actual_rent) * 100, actual_rent)

RECURSIVE valid_errors(_, _)
\* the list valid_errors after the loop over records
valid_errors(recs, model_col) ==
    IF recs = <<>> THEN <<>>
    ELSE LET fields == recs[Len(recs)]
             before == valid_errors(SubSeq(recs, 1, Len(recs) - 1), model_col)
         IN IF skipped(fields, model_col) THEN before
            ELSE Append(before, error_percent(Val(fields, model_col),
                                              Val(fields, S_RentPrice)))

RECURSIVE RatSum(_)
\* sum(valid_errors)
RatSum(xs) == IF xs = <<>> THEN Rat(0, 1) ELSE RatAdd(RatSum(Tail(xs)), xs[1])

\* avg_error = sum(valid_errors) / len(valid_errors)
avg_error(errs) == LET t == RatSum(errs) IN Rat(t.num, t.den * Len(errs))

\* model_score = round(100 - avg_error, 1), in tenths
model_score(errs) ==
    LET a == avg_error(errs) IN round_1(Rat(100 * a.den - a.num, a.den))

RECURSIVE show_valid_errors(_)
\* scripts/show_calculations.py: the list valid_errors after its loop, which
\* takes a record when actual_rent and sonnet_guess and sonnet_guess != 0
show_valid_errors(recs) ==
    IF recs = <<>> THEN <<>>
    ELSE LET fields == recs[Len(recs)]
             before == show_valid_errors(SubSeq(recs, 1, Len(recs) - 1))
         IN IF /\ ~Falsy(fields, S_RentPrice)
               /\ ~Falsy(fields, S_Sonnet4Guess)
               /\ Val(fields, S_Sonnet4Guess) # 0
            THEN Append(before, error_percent(Val(fields, S_Sonnet4Guess),
                                              Val(fields, S_RentPrice)))
            ELSE before

\* scripts/show_calculations.py: score = 100 - avg_error, where valid_errors
show_score(recs) ==
    LET a == avg_error(show_valid_errors(recs)) IN Rat(100 * a.den - a.num, a.den)

\* d[key] = value on a dict given as the sequence of its items
DictPut(d, key, value) ==
    IF \E i \in 1..Len(d) : d[i].name = key
    THEN [i \in 1..Len(d) |-> IF d[i].name = key THEN [name |-> key, score |-> value]
                                                  ELSE d[i]]
    ELSE Append(d, [name |-> key, score |-> value])

RECURSIVE calculate_model_scores(_, _)
\* def calculate_model_scores(records, model_columns)
calculate_model_scores(recs, cols) ==
    IF cols = <<>> THEN <<>>
    ELSE LET model_col == cols[Len(cols)]
             model_name == Replace(model_col, GuessSuffix)
             errs == valid_errors(recs, model_col)
             before == calculate_model_scores(recs, SubSeq(cols, 1, Len(cols) - 1))
         IN IF errs # <<>> THEN DictPut(before, model_name, model_score(errs))
            ELSE before

(***************************************************************************)
(* scripts/upsert_scores.py: main(), one process per scoring run.          *)
(***************************************************************************)
NumRuns == 2

Runs == 1..NumRuns

NoUser == [id |-> 0, username |-> <<>>]

\* main() has left through one of its except clauses
Failed(r) == pc[r] \in {"RequestException", "IntegrityError", "OperationalError"}

\* main() has left after "Successfully processed all models!"
Processed(r) == pc[r] \in {"report", "done"} /\ model_scores[r] # <<>>

\* the item of model_scores.items() the loop of main() is at
item(r) == model_scores[r][todo[r]]

\* steps 1 to 3 of main(): fetch, extract_model_columns,
\* calculate_model_scores, with the three early returns
main_fetch(r, inputs) ==
    /\ pc[r] = "start"
    /\ \E recs \in inputs :
         LET cols == extract_model_columns(recs)
             ms == calculate_model_scores(recs, cols)
         IN /\ records' = [records EXCEPT ![r] = recs]
            /\ model_columns' = [model_columns EXCEPT ![r] = cols]
            /\ model_scores' = [model_scores EXCEPT ![r] = ms]
            /\ pc' = [pc EXCEPT ![r] = IF recs = <<>> \/ cols = <<>> \/ ms = <<>>
                                       THEN "done" ELSE "upsert_user"]
    /\ UNCHANGED <<users, scores, clock, response, todo, user, returned, created>>

\* response.raise_for_status() raises: except RequestException
fetch_failure(r) ==
    /\ pc[r] = "start"
    /\ pc' = [pc EXCEPT ![r] = "RequestException"]
    /\ UNCHANGED <<users, scores, clock, response, records, model_columns,
                   model_scores, todo, user, returned, created>>

\* upsert_user: user = db.query(User).filter(User.username == username).first()
upsert_user_query(r) ==
    /\ pc[r] = "upsert_user"
    /\ LET found == UserByName(item(r).name)
       IN IF found # {}
          THEN /\ user' = [user EXCEPT ![r] = CHOOSE u \in found : TRUE]
               /\ returned' = [returned EXCEPT ![r] = "exists"]
               /\ pc' = [pc EXCEPT ![r] = "create_score"]
          ELSE /\ pc' = [pc EXCEPT ![r] = "insert_user"]
               /\ UNCHANGED <<user, returned>>
    /\ UNCHANGED <<users, scores, clock, response, records, model_columns,
                   model_scores, todo, created>>

\* upsert_user: db.add(user); db.commit(); on IntegrityError db.rollback()
upsert_user_insert(r) ==
    /\ pc[r] = "insert_user"
    /\ IF UserByName(item(r).name) # {}
       THEN /\ pc' = [pc EXCEPT ![r] = "requery"]
            /\ UNCHANGED <<users, user, returned>>
       ELSE /\ users' = insert_user(item(r).name)
            /\ user' = [user EXCEPT ![r] = users'[Len(users')]]
            /\ returned' = [returned EXCEPT ![r] = "created"]
            /\ pc' = [pc EXCEPT ![r] = "create_score"]
    /\ UNCHANGED <<scores, clock, response, records, model_columns, model_scores,
                   todo, created>>

\* an except clause that only rolls back and raises again
upsert_user_reraise(r) ==
    /\ pc[r] = "requery"
    /\ pc' = [pc EXCEPT ![r] = "IntegrityError"]
    /\ UNCHANGED <<users, scores, clock, response, records, model_columns,
                   model_scores, todo, user, returned, created>>

\* upsert_user, except IntegrityError: query again, return the user or raise
upsert_user_requery(r) ==
    /\ pc[r] = "requery"
    /\ LET found == UserByName(item(r).name)
       IN IF found # {}
          THEN /\ user' = [user EXCEPT ![r] = CHOOSE u \in found : TRUE]
               /\ returned' = [returned EXCEPT ![r] = "reread"]
               /\ pc' = [pc EXCEPT ![r] = "create_score"]
          ELSE /\ pc' = [pc EXCEPT ![r] = "IntegrityError"]
               /\ UNCHANGED <<user, returned>>
    /\ UNCHANGED <<users, scores, clock, response, records, model_columns,
                   model_scores, todo, created>>

\* accuracy_score = round(score)
accuracy_score(score) == round_0(score)

\* create_score(db, user.id, accuracy_score), and the loop of main() moves on
create_score(r) ==
    /\ pc[r] = "create_score"
    /\ scores' = insert_score(user[r].id, accuracy_score(item(r).score))
    /\ created' = [created EXCEPT ![r] = Append(@, scores'[Len(scores')])]
    /\ IF todo[r] < Len(model_scores[r])
       THEN /\ todo' = [todo EXCEPT ![r] = @ + 1]
            /\ pc' = [pc EXCEPT ![r] = "upsert_user"]
       ELSE /\ pc' = [pc EXCEPT ![r] = "report"]
            /\ UNCHANGED todo
    /\ UNCHANGED <<users, clock, response, records, model_columns, model_scores, user,
                   returned>>

\* the query of the current leaderboard, printed; finally db.close()
report(r) ==
    /\ pc[r] = "report"
    /\ pc' = [pc EXCEPT ![r] = "done"]
    /\ UNCHANGED <<users, scores, clock, response, records, model_columns,
                   model_scores, todo, user, returned, created>>

\* a statement or commit raises (the connection is lost): except Exception
db_failure(r) ==
    /\ pc[r] \in {"upsert_user", "insert_user", "requery", "create_score", "report"}
    /\ pc' = [pc EXCEPT ![r] = "OperationalError"]
    /\ UNCHANGED <<users, scores, clock, response, records, model_columns,
                   model_scores, todo, user, returned, created>>

(***************************************************************************)
(* What the Airtable fetch returns.                                        *)
(***************************************************************************)
F(name, value) == [name |-> name, value |-> value]

S_GPT5Guess == S_GPT5 \o GuessSuffix

S_aliceGuess == S_alice \o GuessSuffix

S_bobGuess == S_bob \o GuessSuffix

\* both participants guess every listing; alice skips the second
R_both ==
    << <<F(S_RentPrice, 1000), F(S_GPT5Guess, 1100), F(S_aliceGuess, 900)>>,
       <<F(S_RentPrice, 2000), F(S_GPT5Guess, 1800), F(S_aliceGuess, 0)>> >>

\* Airtable leaves an empty cell out of a record: bob has no guess for the
\* first listing
R_late ==
    << <<F(S_RentPrice, 1000), F(S_GPT5Guess, 1100)>>,
       <<F(S_RentPrice, 2000), F(S_GPT5Guess, 1800), F(S_bobGuess, 2000)>> >>

RunInputs == {<<>>, R_both, R_late}

MaxRecords == 2

RentValues == {0, 11, 1000, 2000}

GuessValues == {0, 16, 1100, 1800}

OtherGuessValues == {1100}

AggRecords ==
    {ro \o ao \o bo :
        ro \in {<<>>} \cup {<<F(S_RentPrice, v)>> : v \in RentValues},
        ao \in {<<>>} \cup {<<F(S_Sonnet4Guess, v)>> : v \in GuessValues},
        bo \in {<<>>} \cup {<<F(S_aliceGuess, v)>> : v \in OtherGuessValues}}

AggInputs == UNION {[1..n -> AggRecords] : n \in 0..MaxRecords}

(***************************************************************************)
(* Specifications.                                                         *)
(***************************************************************************)
ApiNames == {S_GPT5}

ApiScoreValues == {90}

InitRuns ==
    /\ pc = [r \in Runs |-> "start"]
    /\ records = [r \in Runs |-> <<>>]
    /\ model_columns = [r \in Runs |-> <<>>]
    /\ model_scores = [r \in Runs |-> <<>>]
    /\ todo = [r \in Runs |-> 1]
    /\ user = [r \in Runs |-> NoUser]
    /\ returned = [r \in Runs |-> "none"]
    /\ created = [r \in Runs |-> <<>>]

\* the tables as create_all leaves them
Init ==
    /\ users = <<>>
    /\ scores = <<>>
    /\ clock = 1516
    /\ response = NoResponse
    /\ InitRuns

main(r, inputs) ==
    \/ main_fetch(r, inputs)
    \/ fetch_failure(r)
    \/ upsert_user_query(r)
    \/ upsert_user_insert(r)
    \/ upsert_user_requery(r)
    \/ create_score(r)
    \/ report(r)
    \/ db_failure(r)

\* POST /users and POST /scores, as many requests as the bounds leave room for
api_requests ==
    \/ \E username \in ApiNames :
         /\ UserByName(username) # {} \/ Len(users) < MaxUsers
         /\ create_user(username)
    \/ \E user_id \in 1..MaxUsers, v \in ApiScoreValues :
         /\ UserById(user_id) = {} \/ Len(scores) < MaxRunScores
         /\ create_score_request(user_id, v)
    \/ deliver

\* the scoring script is started again once the run before has ended
Ended(r) == pc[r] = "done" \/ Failed(r)

Next ==
    \/ \E r \in Runs :
         /\ \A q \in 1..(r - 1) : Ended(q)
         /\ main(r, RunInputs)
    \/ api_requests

Spec == Init /\ [][Next]_vars

\* two scoring runs started without waiting for one another, and the API
RaceInputs == {R_late}

NextRace ==
    \/ \E r \in Runs : main(r, RaceInputs)
    \/ \E username \in ApiNames :
         /\ UserByName(username) # {} \/ Len(users) < MaxUsers
         /\ create_user(username)
    \/ deliver

SpecRace == Init /\ [][NextRace]_vars

\* the aggregation of one fetch, whatever the feed holds; the run is alone on
\* a database that stays up, so that no insert of its meets a uniqueness
\* violation and no statement fails (Spec and SpecRace have both)
NextAgg ==
    \/ main_fetch(1, AggInputs)
    \/ fetch_failure(1)
    \/ upsert_user_query(1)
    \/ upsert_user_insert(1)
    \/ create_score(1)
    \/ report(1)

SpecAgg == Init /\ [][NextAgg]_vars

(***************************************************************************)
(* The leaderboards, over the score events the API has stored. Requests    *)
(* arrive around the two changes of the clocks of 2025.                    *)
(***************************************************************************)
BoardUsers ==
    <<[id |-> 1, username |-> S_GPT5mini], [id |-> 2, username |-> S_alice]>>

\* what user 1 (a model) and user 2 (a human) submit
WeekScoreValues(user_id) == IF user_id = 1 THEN {90, 99} ELSE {55, 90}

\* 2025-03-04 23:00 EST, 2025-03-05 00:00 EST, 2025-03-12 00:00 EDT;
\* 2025-10-28 23:00 EDT, 2025-10-29 00:00 EDT, 2025-11-05 00:00 EST
WeekInstants == {1516, 1517, 1684, 7227, 7228, 7397}

\* five score events of a model, older than a week at t0, and five of a
\* human, one hour old at t0
ExampleStore(t0) ==
    LET ai == <<95, 90, 88, 80, 70>>
        human == <<99, 60, 55, 50, 40>>
    IN [i \in 1..10 |->
          IF i <= 5
          THEN [id |-> i, user_id |-> 1, score_value |-> ai[i], created_at |-> t0 - 1000]
          ELSE [id |-> i, user_id |-> 2, score_value |-> human[i - 5],
                created_at |-> t0 - 1]]

InitWeek ==
    /\ users = BoardUsers
    /\ clock \in {1516, 7227}
    /\ scores \in {<<>>, ExampleStore(clock)}
    /\ response = NoResponse
    /\ InitRuns

NextWeek ==
    \/ \E user_id \in 1..(Len(users) + 1) : \E v \in WeekScoreValues(user_id) :
         /\ UserById(user_id) = {} \/ Len(scores) < MaxScores
         /\ create_score_request(user_id, v)
    \/ Tick(WeekInstants)
    \/ get_week_scores
    \/ deliver

SpecWeek == InitWeek /\ [][NextWeek]_vars

\* what user 1 and user 2 submit
TodayScoreValues(user_id) == IF user_id = 1 THEN {99} ELSE {55}

\* 2025-03-08 23:00 EST, 2025-03-09 00:00 EST, 2025-03-09 23:00 EDT,
\* 2025-03-10 00:00 EDT; 2025-11-01 23:00 EDT, 2025-11-02 00:00 EDT,
\* 2025-11-02 23:00 EST, 2025-11-03 00:00 EST
TodayInstants == {1612, 1613, 1635, 1636, 7323, 7324, 7348, 7349}

InitToday ==
    /\ users = BoardUsers
    /\ clock \in {1612, 7323}
    /\ scores = <<>>
    /\ response = NoResponse
    /\ InitRuns

NextToday ==
    \/ \E user_id \in 1..(Len(users) + 1) : \E v \in TodayScoreValues(user_id) :
         /\ UserById(user_id) = {} \/ Len(scores) < MaxScores
         /\ create_score_request(user_id, v)
    \/ Tick(TodayInstants)
    \/ get_today_scores
    \/ deliver

SpecToday == InitToday /\ [][NextToday]_vars

(***************************************************************************)
(* The claims about the leaderboards.                                      *)
(***************************************************************************)
\* a recognized model identifier is a substring of the name
IsModelName(name) ==
    \E m \in {S_Sonnet4, S_Gemini25Flash, S_GPT5} :
        \E i \in 1..(Len(name) - Len(m) + 1) : SubSeq(name, i, i + Len(m) - 1) = m

\* the hour on the clocks of New York at instant u, counted from 2025-01-01
CivilHour(u) == IF DstStart <= u /\ u < DstEnd THEN u - 4 ELSE u - 5

\* t lies in the 7 days on the clocks of New York that end at now
InTrailingWeek(t, now) == t <= now /\ CivilHour(t) >= CivilHour(now) - 7 * 24

Min3(n) == IF n < 3 THEN n ELSE 3

ResponseEntries == Range(response.scores)

HumanEntries == {e \in ResponseEntries : ~IsModelName(e.username)}

ModelEntries == {e \in ResponseEntries : IsModelName(e.username)}

EligibleHumans ==
    {r \in JoinedRows : ~IsModelName(r.username) /\ InTrailingWeek(r.created_at, clock)}

AllModelEvents == {r \in JoinedRows : IsModelName(r.username)}

\* C1: the human entries of the weekly leaderboard are score events of
\* participants whose name holds no model identifier, created in the 7 days
\* that end at now; they are the 3 best of those (all of them when fewer):
\* at most 3, and none left out scores strictly higher than one included.
\* An older human event never appears, whatever its score.
C1_HumanSelection ==
    response.op = "week" =>
        /\ HumanEntries \subseteq EligibleHumans
        /\ Cardinality(HumanEntries) = Min3(Cardinality(EligibleHumans))
        /\ Cardinality(HumanEntries) <= 3
        /\ \A q \in EligibleHumans \ HumanEntries : \A h \in HumanEntries :
              q.score_value <= h.score_value

\* a human event older than the week holds the highest score stored and is
\* left out, while humans of the week are listed
C1_Witness ==
    /\ response.op = "week"
    /\ Cardinality(HumanEntries) >= 2
    /\ \E old \in JoinedRows :
          /\ ~IsModelName(old.username)
          /\ ~InTrailingWeek(old.created_at, clock)
          /\ old \notin ResponseEntries
          /\ \A r \in JoinedRows \ {old} : r.score_value < old.score_value

\* C2: the model entries of the weekly leaderboard are score events of
\* participants whose name holds a model identifier as a substring, taken
\* from the whole history whatever their age; they are the 3 best of those:
\* at most 3, and none left out scores strictly higher than one included.
C2_ModelSelection ==
    response.op = "week" =>
        /\ ModelEntries \subseteq AllModelEvents
        /\ Cardinality(ModelEntries) = Min3(Cardinality(AllModelEvents))
        /\ Cardinality(ModelEntries) <= 3
        /\ \A q \in AllModelEvents \ ModelEntries : \A m \in ModelEntries :
              q.score_value <= m.score_value

\* four events of a model are stored, the three listed include one older
\* than the week, and the one left out scores strictly less than one listed
C2_Witness ==
    /\ response.op = "week"
    /\ Cardinality(AllModelEvents) > 3
    /\ \E m \in ModelEntries : ~InTrailingWeek(m.created_at, clock)
    /\ \E q \in AllModelEvents \ ModelEntries : \E m \in ModelEntries :
          q.score_value < m.score_value

ScoreValues(list) == [i \in 1..Len(list) |-> list[i].score_value]

\* the store of the example: 5 events of a model and 5 of a human, the
\* humans' all of the week
IsExample ==
    /\ ScoreValues(scores) = <<95, 90, 88, 80, 70, 99, 60, 55, 50, 40>>
    /\ Cardinality(AllModelEvents) = 5
    /\ Cardinality(EligibleHumans) = 5

\* C3: the weekly leaderboard is the selected model entries (at most 3)
\* together with the selected human entries (at most 3), each once: at most
\* 6 entries, ordered by score value descending whatever the population.
\* For model events 95,90,88,80,70 and human events of the week
\* 99,60,55,50,40 it is 99,95,90,88,60,55.
C3_Merge ==
    response.op = "week" =>
        /\ ResponseEntries \subseteq AllModelEvents \cup EligibleHumans
        /\ Cardinality(ResponseEntries) = Len(response.scores)
        /\ Len(response.scores) =
              Min3(Cardinality(AllModelEvents)) + Min3(Cardinality(EligibleHumans))
        /\ Len(response.scores) <= 6
        /\ \A i \in 1..(Len(response.scores) - 1) :
              response.scores[i].score_value >= response.scores[i + 1].score_value
        /\ IsExample => ScoreValues(response.scores) = <<99, 95, 90, 88, 60, 55>>

\* the leaderboard of the example: 6 entries, a human first, models next
C3_Witness ==
    /\ response.op = "week"
    /\ IsExample
    /\ Len(response.scores) = 6
    /\ ~IsModelName(response.scores[1].username)
    /\ IsModelName(response.scores[2].username)

\* the day on the calendar of New York that instant u falls in
CivilDay(u) == CivilHour(u) \div 24

TodayEvents == {r \in JoinedRows : CivilDay(r.created_at) = CivilDay(clock)}

\* C10 (the list): the daily leaderboard holds exactly the score events
\* created in the current calendar day of New York, each once, models' and
\* humans' alike and however many, newest first.
C10_TodayList ==
    response.op = "today" =>
        /\ ResponseEntries = TodayEvents
        /\ Len(response.scores) = Cardinality(TodayEvents)
        /\ \A i \in 1..(Len(response.scores) - 1) :
              response.scores[i].created_at >= response.scores[i + 1].created_at

\* C10: the list is as C10_TodayList says, and the read leaves the stored
\* users and score events unchanged.
C10_DailyLeaderboard ==
    /\ []C10_TodayList
    /\ [][response'.op = "today" => UNCHANGED <<users, scores>>]_vars

\* more than 3 entries, a model's and a human's, from midnight to the last
\* hour of the 25 hour day, a lower score ahead of a higher one
C10_Witness ==
    /\ response.op = "today"
    /\ Len(response.scores) > 3
    /\ ModelEntries # {} /\ HumanEntries # {}
    /\ response.scores[1].created_at - response.scores[Len(response.scores)].created_at >= 24
    /\ \E i \in 1..(Len(response.scores) - 1) :
          response.scores[i].score_value < response.scores[i + 1].score_value

(***************************************************************************)
(* The claims about the scoring runs.                                      *)
(***************************************************************************)
\* the username of the user a score row belongs to
OwnerName(row) == (CHOOSE u \in Range(users) : u.id = row.user_id).username

\* every score row a run has written is in the table, for the participant
\* the run wrote it for
WrittenAsReturned(r) ==
    /\ Len(created[r]) <= Len(model_scores[r])
    /\ \A k \in 1..Len(created[r]) :
          LET c == created[r][k]
          IN /\ c.id <= Len(scores) /\ scores[c.id] = c
             /\ UserById(c.user_id) # {}
             /\ OwnerName(c) = model_scores[r][k].name

\* C4 (the runs): a run that went through has added one score event for
\* each participant it found valid predictions for, and two runs that went
\* through on the same feed have left two separate events with equal
\* values for each of them.
C4_RunsAddEvents ==
    /\ \A r \in Runs : WrittenAsReturned(r)
    /\ \A r \in Runs : Processed(r) => Len(created[r]) = Len(model_scores[r])
    /\ \A r, q \in Runs :
          r # q /\ Processed(r) /\ Processed(q) /\ records[r] = records[q] =>
             \A k \in 1..Len(created[r]) :
                /\ created[r][k].id # created[q][k].id
                /\ created[r][k].user_id = created[q][k].user_id
                /\ created[r][k].score_value = created[q][k].score_value

\* C4: score events are append-only: no step updates or removes a stored
\* score event, and the runs add theirs as C4_RunsAddEvents says.
C4_AppendOnly ==
    /\ [][/\ Len(scores') >= Len(scores)
          /\ \A i \in 1..Len(scores) : scores'[i] = scores[i]]_vars
    /\ []C4_RunsAddEvents

\* two runs went through on the same feed of two participants: four events
C4_Witness ==
    /\ \A r \in {1, 2} : Processed(r) /\ records[r] = R_both
    /\ Range(created[1]) \cap Range(created[2]) = {}
    /\ Cardinality(Range(created[1]) \cup Range(created[2])) = 4
    /\ Len(users) = 2

\* C5: when a run has ended, it has persisted a score event for every
\* participant whose score it computed, or it failed and persisted none.
C5_AllOrNothing ==
    \A r \in Runs :
        Ended(r) =>
            \/ Len(created[r]) = Len(model_scores[r])
            \/ Failed(r) /\ created[r] = <<>>

\* C6: whoever creates a participant first, one participant of that name
\* exists; the run that meets the uniqueness violation reads the existing
\* participant again and goes on with it, it does not fail with it; and
\* every score event of a run belongs to the participant of that name.
C6_DuplicateTolerated ==
    /\ \A u1, u2 \in Range(users) : u1.username = u2.username => u1 = u2
    /\ \A r \in Runs :
          /\ pc[r] # "IntegrityError"
          /\ pc[r] = "create_score" =>
                user[r] \in Range(users) /\ user[r].username = item(r).name
          /\ WrittenAsReturned(r)
          /\ Processed(r) => Len(created[r]) = Len(model_scores[r])

\* both runs went through, one of them after reading the participant again,
\* and their two score events belong to the one participant of that name
C6_Witness ==
    /\ \A r \in {1, 2} : Processed(r) /\ Len(created[r]) = 1
    /\ returned[1] = "reread"
    /\ returned[2] = "created"
    /\ created[1][1].user_id = created[2][1].user_id
    /\ created[1][1].id # created[2][1].id
    /\ Len(users) = 1

\* the record holds a rent and a guess in column col, neither of them 0
ValidPrediction(fields, col) ==
    /\ \E i \in 1..Len(fields) : fields[i].name = S_RentPrice /\ fields[i].value # 0
    /\ \E i \in 1..Len(fields) : fields[i].name = col /\ fields[i].value # 0

ValidIndexes(recs, col) == {i \in 1..Len(recs) : ValidPrediction(recs[i], col)}

RECURSIVE ErrorTotal(_, _, _)
\* the sum over the records I of |guess - rent| / rent * 100
ErrorTotal(recs, col, I) ==
    IF I = {} THEN Rat(0, 1)
    ELSE LET i == CHOOSE j \in I : TRUE
             rent == Val(recs[i], S_RentPrice)
             guess == Val(recs[i], col)
         IN RatAdd(ErrorTotal(recs, col, I \ {i}),
                   Rat(100 * Abs(guess - rent), rent))

\* 100 minus the mean error over the valid predictions
ExactScore(recs, col) ==
    LET I == ValidIndexes(recs, col)
        t == ErrorTotal(recs, col, I)
    IN Rat(100 * t.den * Cardinality(I) - t.num, t.den * Cardinality(I))

\* the field name minus the suffix " Guess"
Participant(col) == SubSeq(col, 1, Len(col) - Len(GuessSuffix))

DictNames(d) == {d[i].name : i \in 1..Len(d)}

DictScore(d, name) == d[CHOOSE i \in 1..Len(d) : d[i].name = name].score

\* |a/b - x| <= 1/c, for b > 0 and c > 0
Within(a, b, x, c) == c * Abs(a * x.den - b * x.num) <= b * x.den

Computed(r) == pc[r] \notin {"start", "RequestException"}

\* C7: the score of a participant is computed from exactly the records
\* that hold a rent and a guess, neither of them 0: it is 100 minus the
\* mean of |guess - rent| / rent * 100 over them, to one decimal (90.0 for
\* (1000,1100),(2000,1800)), and show_calculations.py computes the same. A
\* participant with no such record has no score and gets no score event,
\* and the other participants of the run get theirs.
C7_ValidPredictionsOnly ==
    \A r \in Runs :
        Computed(r) =>
            /\ \A k \in 1..Len(model_columns[r]) :
                  LET col == model_columns[r][k]
                      name == Participant(col)
                  IN IF ValidIndexes(records[r], col) = {}
                     THEN /\ name \notin DictNames(model_scores[r])
                          /\ \A c \in Range(created[r]) : OwnerName(c) # name
                     ELSE /\ name \in DictNames(model_scores[r])
                          /\ Within(DictScore(model_scores[r], name), 10,
                                    ExactScore(records[r], col), 20)
                          /\ Processed(r) =>
                                \E c \in Range(created[r]) : OwnerName(c) = name
            /\ Len(model_scores[r]) <= Len(model_columns[r])
            /\ ValidIndexes(records[r], S_Sonnet4Guess) # {} =>
                  show_score(records[r]) = ExactScore(records[r], S_Sonnet4Guess)
            /\ records[r] = << <<F(S_RentPrice, 1000), F(S_Sonnet4Guess, 1100)>>,
                               <<F(S_RentPrice, 2000), F(S_Sonnet4Guess, 1800)>> >> =>
                  model_scores[r] = <<[name |-> S_Sonnet4, score |-> 900]>>

\* a run went through on a feed where one participant guessed 0 only, and
\* the other has a score of a record with a guess and none of a record
\* without a rent
C7_Witness ==
    /\ Processed(1)
    /\ Len(records[1]) = 2
    /\ model_columns[1] = <<S_Sonnet4Guess, S_aliceGuess>>
    /\ \A i \in 1..2 : Has(records[1][i], S_Sonnet4Guess)
                          /\ Val(records[1][i], S_Sonnet4Guess) = 0
    /\ ValidIndexes(records[1], S_aliceGuess) = {1}
    /\ ~Has(records[1][2], S_RentPrice) /\ Has(records[1][2], S_aliceGuess)
    /\ Len(created[1]) = 1
    /\ OwnerName(created[1][1]) = S_alice

\* the guess columns of a feed: the field names, of any record, that end
\* in " Guess"
GuessColumns(recs) ==
    {recs[i][j].name : <<i, j>> \in
        {p \in (1..Len(recs)) \X (1..3) :
            p[2] <= Len(recs[p[1]]) /\ EndsWith(recs[p[1]][p[2]].name, GuessSuffix)}}

\* C8: a run that has returned without an exception has persisted a score
\* event for every participant that a guess column of any record names and
\* that has a valid prediction.
C8_EveryGuessColumnScored ==
    \A r \in Runs :
        pc[r] \in {"report", "done"} =>
            \A col \in GuessColumns(records[r]) :
                ValidIndexes(records[r], col) # {} =>
                    \E c \in Range(created[r]) : OwnerName(c) = Participant(col)

\* C9: the value stored in a score event is within 1/2 of 100 minus the
\* mean error of the participant's valid predictions.
C9_NearestInteger ==
    \A r \in Runs :
        \A k \in 1..Len(created[r]) :
            Within(created[r][k].score_value, 1,
                   ExactScore(records[r], model_scores[r][k].name \o GuessSuffix), 2)

(***************************************************************************)
(* The claim about the two tables together.                                *)
(***************************************************************************)
\* every score event belongs to a user of the table, and no two users share
\* a name or an id
C11_Integrity ==
    /\ \A i \in 1..Len(scores) :
          \E j \in 1..Len(users) : users[j].id = scores[i].user_id
    /\ \A i, j \in 1..Len(users) :
          i # j => users[i].username # users[j].username /\ users[i].id # users[j].id

\* a step that answers POST /scores: not found and the score events as they
\* were, or one event more, of a user that existed
C11_ScoreSubmission ==
    response = NoResponse /\ response'.op = "create_score" =>
        \/ response'.status = 404 /\ UNCHANGED <<users, scores>>
        \/ /\ response'.status = 200
           /\ Len(scores') = Len(scores) + 1
           /\ SubSeq(scores', 1, Len(scores)) = scores
           /\ \E j \in 1..Len(users) : users[j].id = scores'[Len(scores')].user_id
           /\ UNCHANGED users

\* a step that answers POST /users: conflict and the users as they were, or
\* one user more, of a name that no user had
C11_UserCreation ==
    response = NoResponse /\ response'.op = "create_user" =>
        \/ response'.status = 409 /\ UNCHANGED <<users, scores>>
        \/ /\ response'.status = 200
           /\ Len(users') = Len(users) + 1
           /\ SubSeq(users', 1, Len(users)) = users
           /\ \A j \in 1..Len(users) :
                 users[j].username # users'[Len(users')].username
           /\ UNCHANGED scores

\* C11: after any sequence of user creations, score submissions and scoring
\* runs, every stored score event references a participant that exists and
\* the participants' names are pairwise distinct; a score submission for an
\* id that no participant has is answered not found and leaves the score
\* events as they were, and a user creation with a name in use is answered
\* conflict and leaves the participants as they were.
C11_ReferentialIntegrity ==
    /\ []C11_Integrity
    /\ [][C11_ScoreSubmission /\ C11_UserCreation]_vars

\* a submission for an id that no participant has is answered not found,
\* with a participant and score events of a run and of the API stored
C11_Witness ==
    /\ response.op = "create_score" /\ response.status = 404
    /\ Len(users) = 1
    /\ Len(scores) >= 2
    /\ \E r \in Runs : created[r] # <<>>
    /\ \E i \in 1..Len(scores) : \A r \in Runs : scores[i] \notin Range(created[r])

====
